---------------------------- MODULE Spec2Model ----------------------------
(***************************************************************************)
(* Model of the student dashboard of src/main.py: the value normalizer,    *)
(* the radar and grade-point charts, the help-status card and the render   *)
(* pass of main.                                                           *)
(*                                                                         *)
(* Numbers.  Scores are integers; grade points are integers in tenths      *)
(* (3.2 is 32).  Results of divisions are exact rationals <<n, d>>, d > 0, *)
(* compared by cross-multiplication; they are never rounded.               *)
(*                                                                         *)
(* Python values (the cells of a record or of a spreadsheet):              *)
(*   [k |-> "None"]                     None                               *)
(*   [k |-> "nan", np |-> b]            a float NaN; b: it is the very     *)
(*                                      object np.nan (identity)           *)
(*   [k |-> "num", n |-> i, d |-> j,    the number i/j (j > 0); b: it is a *)
(*    np |-> b]                         numpy.float64 rather than a Python *)
(*                                      int or float                       *)
(*   [k |-> "str", s |-> t]             a string                           *)
(***************************************************************************)
EXTENDS Integers, Sequences, FiniteSets, TLC

VARIABLES
    value, min_val, max_val,    \* the arguments of a call of normalize_value
    normalized,                 \* and what it returned or raised
    student_data,               \* the record given to a chart or a card
    df,                         \* the cohort given with it
    radar,                      \* the result of create_radar_chart
    gpa_chart,                  \* the result of create_gpa_chart
    help_status,                \* what display_help_status wrote
    uploaded_file,              \* the file held by the uploader widget
    search_term,                \* the text held by the search box
    selection,                  \* the choice held by the selectbox
    view,                       \* what the last run of main showed
    uploads,                    \* the uploads made in this session
    failing,                    \* the chart constructions that raise in a run
    pressed                     \* the button whose press set off the last run

normVars == <<value, min_val, max_val, normalized>>
reportVars == <<student_data, df, radar, gpa_chart, help_status>>
sessionVars ==
    <<uploaded_file, search_term, selection, view, uploads, failing, pressed>>
vars == <<normVars, reportVars, sessionVars>>

---------------------------------------------------------------------------
(* Bounds of the model *)

\* normalize_value is tried on the numbers -2 .. MaxValue
MaxValue == 6
\* and on the bounds -1 .. MaxBoundVal
MaxBoundVal == 4
\* The rows of a cohort
CohortSize == 2
\* The rows of an uploaded spreadsheet
SheetRows == 2
\* The uploads of one session
MaxUploads == 2
\* The columns an uploaded spreadsheet may lack
MaxMissing == 2

---------------------------------------------------------------------------
(* Python values *)

None == [k |-> "None"]
NaN(b) == [k |-> "nan", np |-> b]
Num(i) == [k |-> "num", n |-> i, d |-> 1, np |-> FALSE]
NpNum(i) == [k |-> "num", n |-> i, d |-> 1, np |-> TRUE]
NpRat(i, j) == [k |-> "num", n |-> i, d |-> j, np |-> TRUE]
Str(t) == [k |-> "str", s |-> t]

\* pd.isna / pd.notna on a scalar
isna(x) == x.k \in {"None", "nan"}
notna(x) == ~isna(x)

---------------------------------------------------------------------------
(* Extended rationals: the floats the code computes with *)

Fin(n, d) == [t |-> "fin", n |-> n, d |-> d]
PosInf == [t |-> "inf"]
NegInf == [t |-> "-inf"]
FNaN == [t |-> "nan"]

\* a < b on floats; every comparison with NaN is false
Lt(a, b) ==
    CASE a.t = "nan" \/ b.t = "nan" -> FALSE
      [] a.t = "inf" -> FALSE
      [] b.t = "-inf" -> FALSE
      [] a.t = "-inf" -> TRUE
      [] b.t = "inf" -> TRUE
      [] OTHER -> a.n * b.d < b.n * a.d

FEq(a, b) ==
    CASE a.t = "fin" /\ b.t = "fin" -> a.n * b.d = b.n * a.d
      [] a.t = "nan" \/ b.t = "nan" -> FALSE
      [] OTHER -> a.t = b.t

Le(a, b) == Lt(a, b) \/ FEq(a, b)

\* Python's min(a, b) and max(a, b): the first argument unless the second
\* is strictly smaller (larger)
PyMin(a, b) == IF Lt(b, a) THEN b ELSE a
PyMax(a, b) == IF Lt(a, b) THEN b ELSE a

---------------------------------------------------------------------------
(* normalize_value *)

Returned(x) == [exc |-> "none", val |-> x]
Raised(e) == [exc |-> e]

\* ((value - min_val) / (max_val - min_val)) * 100 for max_val # min_val,
\* with the denominator kept positive
Quotient(x, lo, hi) ==
    IF hi > lo THEN Fin((x.n - lo * x.d) * 100, x.d * (hi - lo))
    ELSE Fin((lo * x.d - x.n) * 100, x.d * (lo - hi))

\* The same with max_val = min_val allowed: a Python number raises
\* ZeroDivisionError, a numpy.float64 divides to inf, -inf or nan
Scale(x, lo, hi) ==
    IF hi # lo THEN Returned(Quotient(x, lo, hi))
    ELSE IF ~x.np THEN Raised("ZeroDivisionError")
    ELSE Returned(CASE x.n > lo * x.d -> PosInf
                    [] x.n < lo * x.d -> NegInf
                    [] OTHER -> FNaN)

\* normalize_value without its clamp to 0 .. 100
normalize_value_unclamped(x, lo, hi) ==
    IF isna(x) THEN Returned(Fin(0, 1))
    ELSE IF x.k = "str" THEN Raised("TypeError")
    ELSE Scale(x, lo, hi)

\* normalize_value without its pd.isna test: None does not subtract, and a
\* NaN goes through the arithmetic and the clamp
normalize_value_unchecked(x, lo, hi) ==
    IF x.k \in {"None", "str"} THEN Raised("TypeError")
    ELSE IF x.k = "nan"
    THEN Returned(PyMax(Fin(0, 1), PyMin(Fin(100, 1), FNaN)))
    ELSE LET q == Scale(x, lo, hi)
         IN  IF q.exc # "none" THEN q
             ELSE Returned(PyMax(Fin(0, 1), PyMin(Fin(100, 1), q.val)))

normalize_value(x, lo, hi) ==
    IF isna(x) THEN Returned(Fin(0, 1))
    ELSE IF x.k = "str" THEN Raised("TypeError")
    ELSE LET q == Scale(x, lo, hi)
         IN  IF q.exc # "none" THEN q
             ELSE Returned(PyMax(Fin(0, 1), PyMin(Fin(100, 1), q.val)))

---------------------------------------------------------------------------
(* Records and cohorts.                                                    *)
(* A student record (a pandas Series) is a function from the field names   *)
(* it holds to cells; a field it lacks is outside its DOMAIN.  A cohort    *)
(* (a DataFrame) is a function from the column names it holds to columns,  *)
(* each a sequence of cells, one per row; NoDf is df=None.                 *)
(* Field names are written in ASCII:                                       *)
(*   deyu 德育, zhiyu 智育, tice 体测成绩, fujia 附加分,                   *)
(*   fujia2324 23-24附加分, total 测评总分,                                *)
(*   gpa1 第一学期绩点, gpa2 第二学期绩点, gpa3 第三学期绩点               *)

NoDf == [k |-> "None"]

\* student_data.get(key, default)
Get(rec, key, default) == IF key \in DOMAIN rec THEN rec[key] ELSE default

\* float(s) succeeds on these strings (the number each one denotes)
NumericStrings == ("13" :> 13) @@ ("3.5" :> 35)

\* pd.to_numeric(x, errors='coerce') on one cell
to_numeric(x) ==
    CASE isna(x) -> NaN(FALSE)
      [] x.k = "num" -> x
      [] x.s \in DOMAIN NumericStrings -> NpNum(NumericStrings[x.s])
      [] OTHER -> NaN(FALSE)

\* The sum and the count of the numeric cells of a coerced column
RECURSIVE SumCount(_)
SumCount(col) ==
    IF col = <<>> THEN [n |-> 0, d |-> 1, cnt |-> 0]
    ELSE LET x == to_numeric(Head(col))
             r == SumCount(Tail(col))
         IN  IF isna(x) THEN r
             ELSE [n |-> x.n * r.d + r.n * x.d, d |-> x.d * r.d,
                   cnt |-> r.cnt + 1]

\* pd.to_numeric(df[c], errors='coerce').mean(): NaN cells are skipped, and
\* the mean of no cell at all is NaN
mean(col) ==
    LET sc == SumCount(col)
    IN  IF sc.cnt = 0 THEN NaN(FALSE) ELSE NpRat(sc.n, sc.d * sc.cnt)

---------------------------------------------------------------------------
(* create_radar_chart *)

\* The bounds normalize_value is given for each category
MetricSpec ==
    << [lo |-> 12, hi |-> 15], [lo |-> 50, hi |-> 100],
       [lo |-> 60, hi |-> 120], [lo |-> -1, hi |-> 6],
       [lo |-> 50, hi |-> 110] >>

actual_values_of(rec) ==
    << Get(rec, "deyu", Num(0)), Get(rec, "zhiyu", Num(0)),
       Get(rec, "tice", Num(0)),
       Get(rec, "fujia", Get(rec, "fujia2324", Num(0))),
       Get(rec, "total", Num(0)) >>

class_avg_of(cohort) ==
    LET avg(c) == IF c \in DOMAIN cohort THEN mean(cohort[c]) ELSE Num(0)
    IN  << avg("deyu"), avg("zhiyu"), avg("tice"),
           IF "fujia" \in DOMAIN cohort THEN mean(cohort["fujia"])
           ELSE avg("fujia2324"),
           avg("total") >>

normalize_all(vals) ==
    << normalize_value(vals[1], MetricSpec[1].lo, MetricSpec[1].hi),
       normalize_value(vals[2], MetricSpec[2].lo, MetricSpec[2].hi),
       normalize_value(vals[3], MetricSpec[3].lo, MetricSpec[3].hi),
       normalize_value(vals[4], MetricSpec[4].lo, MetricSpec[4].hi),
       normalize_value(vals[5], MetricSpec[5].lo, MetricSpec[5].hi) >>

\* The figure: the cohort trace (when df is given) and the individual
\* trace, each the normalized values over the five categories.  A raise of
\* normalize_value leaves the function.
create_radar_chart(rec, cohort) ==
    LET actual == actual_values_of(rec)
        nvals == normalize_all(actual)
        bad == {i \in 1..5 : nvals[i].exc # "none"}
    IN  IF bad # {}
        THEN Raised(nvals[CHOOSE i \in bad : \A j \in bad : i <= j].exc)
        ELSE IF cohort = NoDf
        THEN [exc |-> "none", actual_values |-> actual,
              normalized_values |-> [i \in 1..5 |-> nvals[i].val],
              has_class |-> FALSE]
        ELSE LET avg == class_avg_of(cohort)
                 navg == normalize_all(avg)
             IN  [exc |-> "none", actual_values |-> actual,
                  normalized_values |-> [i \in 1..5 |-> nvals[i].val],
                  has_class |-> TRUE,
                  class_avg |-> avg,
                  normalized_class_avg |-> [i \in 1..5 |-> navg[i].val]]

---------------------------------------------------------------------------
(* Exact rational arithmetic on finite floats *)

RAdd(a, b) == Fin(a.n * b.d + b.n * a.d, a.d * b.d)
RSub(a, b) == Fin(a.n * b.d - b.n * a.d, a.d * b.d)
RMulInt(i, a) == Fin(i * a.n, a.d)
\* a / i for an integer i > 0
RDivInt(a, i) == Fin(a.n, a.d * i)

RECURSIVE RSum(_)
RSum(seq) == IF seq = <<>> THEN Fin(0, 1) ELSE RAdd(Head(seq), RSum(Tail(seq)))

RECURSIVE ISum(_)
ISum(seq) == IF seq = <<>> THEN 0 ELSE Head(seq) + ISum(Tail(seq))

---------------------------------------------------------------------------
(* create_gpa_chart.  A period is its number 1, 2, 3 (第一学期, 第二学期,  *)
(* 第三学期); the label of the predicted period, 第k学期(预测), is          *)
(* [pred |-> k].                                                           *)

GpaKey(sem) == CASE sem = 1 -> "gpa1" [] sem = 2 -> "gpa2" [] sem = 3 -> "gpa3"

\* The example series of the fallback
DefaultSemesters == <<1, 2, 3>>
DefaultGpas == <<Fin(32, 1), Fin(35, 1), Fin(31, 1)>>
\* The cohort mean of a period whose column the cohort lacks (3.0)
DefaultClassAvg == NpNum(30)

\* The conversion of a present cell: a number is taken as it is, a string
\* goes through float(), which raises ValueError on a non-numeric one
Converted(x) ==
    CASE x.k = "num" -> Returned(Fin(x.n, x.d))
      [] x.s \in DOMAIN NumericStrings -> Returned(Fin(NumericStrings[x.s], 1))
      [] OTHER -> Raised("ValueError")

\* The collecting loop over the three periods: the period is appended
\* before the conversion is tried, the value after it succeeded
RECURSIVE Collect(_, _)
Collect(rec, sems) ==
    IF sems = <<>> THEN [semesters |-> <<>>, gpas |-> <<>>]
    ELSE LET sem == Head(sems)
             r == Collect(rec, Tail(sems))
             key == GpaKey(sem)
         IN  IF key \in DOMAIN rec /\ notna(rec[key])
             THEN LET c == Converted(rec[key])
                  IN  [semesters |-> <<sem>> \o r.semesters,
                       gpas |-> IF c.exc = "none" THEN <<c.val>> \o r.gpas
                                ELSE r.gpas]
             ELSE r

\* np.polyfit(np.arange(n), y, 1): the least-squares line, as the pair of
\* slope and intercept, from the normal equations
polyfit(y) ==
    LET n == Len(y)
        Sx == ISum([i \in 1..n |-> i - 1])
        Sxx == ISum([i \in 1..n |-> (i - 1) * (i - 1)])
        Sy == RSum(y)
        Sxy == RSum([i \in 1..n |-> RMulInt(i - 1, y[i])])
        D == n * Sxx - Sx * Sx
    IN  [slope |-> RDivInt(RSub(RMulInt(n, Sxy), RMulInt(Sx, Sy)), D),
         intercept |-> RDivInt(RSub(RMulInt(Sxx, Sy), RMulInt(Sx, Sxy)), D)]

\* np.polyval(coeffs, x)
polyval(coeffs, x) == RAdd(RMulInt(x, coeffs.slope), coeffs.intercept)

\* trend_of predicting at position n + 1 (the period's number) instead of n
trend_of_next_number(semesters, gpas) ==
    LET n == Len(gpas)
        coeffs == polyfit(gpas)
        trend_line == [i \in 1..n |-> polyval(coeffs, i - 1)]
        next_gpa == PyMax(Fin(0, 1), PyMin(Fin(40, 1), polyval(coeffs, n + 1)))
    IN  [all_semesters |-> semesters \o <<[pred |-> n + 1]>>,
         all_trend |-> trend_line \o <<next_gpa>>,
         next_semester |-> [pred |-> n + 1],
         next_gpa |-> next_gpa]

\* trend_of drawing the trend through the prediction only, the fitted
\* values of the observed positions left out
trend_of_prediction_only(semesters, gpas) ==
    LET n == Len(gpas)
        coeffs == polyfit(gpas)
        next_gpa == PyMax(Fin(0, 1), PyMin(Fin(40, 1), polyval(coeffs, n)))
    IN  [all_semesters |-> semesters \o <<[pred |-> n + 1]>>,
         all_trend |-> <<next_gpa>>,
         next_semester |-> [pred |-> n + 1],
         next_gpa |-> next_gpa]

\* The traces of the trend: the fitted line over the observed positions,
\* then the prediction at the next one, clamped to 0 .. 4
trend_of(semesters, gpas) ==
    LET n == Len(gpas)
        coeffs == polyfit(gpas)
        trend_line == [i \in 1..n |-> polyval(coeffs, i - 1)]
        next_gpa == PyMax(Fin(0, 1), PyMin(Fin(40, 1), polyval(coeffs, n)))
    IN  [all_semesters |-> semesters \o <<[pred |-> n + 1]>>,
         all_trend |-> trend_line \o <<next_gpa>>,
         next_semester |-> [pred |-> n + 1],
         next_gpa |-> next_gpa]

\* The cohort means, one per period of the individual trace
class_avg_gpas_of(cohort, semesters) ==
    [i \in 1..Len(semesters) |->
        IF GpaKey(semesters[i]) \in DOMAIN cohort
        THEN mean(cohort[GpaKey(semesters[i])])
        ELSE DefaultClassAvg]

create_gpa_chart(rec, cohort) ==
    LET got == Collect(rec, <<1, 2, 3>>)
        fallback == Len(got.semesters) < 2
        semesters == IF fallback THEN DefaultSemesters ELSE got.semesters
        gpas == IF fallback THEN DefaultGpas ELSE got.gpas
    IN  [exc |-> "none",
         fallback |-> fallback,
         semesters |-> semesters,
         gpas |-> gpas,
         has_class |-> cohort # NoDf,
         class_avg_gpas |->
            IF cohort # NoDf THEN class_avg_gpas_of(cohort, semesters) ELSE <<>>,
         has_trend |-> Len(gpas) >= 2,
         trend |-> IF Len(gpas) >= 2 THEN trend_of(semesters, gpas) ELSE <<>>]

---------------------------------------------------------------------------
(* display_help_status.  Fields: help 有无需要学院协助解决的困难,           *)
(* difficulty 有何困难, psych 最新心理等级.  Strings: "wu" is the literal  *)
(* 无, "unspecified" 未详细说明, "unassessed" 未评估.                      *)

\* x in [None, '无', np.nan]: Python's list membership holds for an item
\* that is the same object as x or equals x; a NaN equals nothing, so it is
\* found only when it is the object np.nan itself
InNoHelpList(x) ==
    \/ x.k = "None"
    \/ x.k = "str" /\ x.s = "wu"
    \/ x.k = "nan" /\ x.np

\* bool(x)
Truthy(x) ==
    CASE x.k = "None" -> FALSE
      [] x.k = "nan" -> TRUE
      [] x.k = "num" -> x.n # 0
      [] x.k = "str" -> x.s # ""

display_help_status(rec) ==
    LET help_needed == ~InNoHelpList(Get(rec, "help", None))
        difficulty == Get(rec, "difficulty", Str("unspecified"))
    IN  [exc |-> "none",
         help_needed |-> help_needed,
         card |-> IF help_needed THEN "help-needed" ELSE "help-not-needed",
         detail |-> IF help_needed /\ Truthy(difficulty)
                        /\ difficulty # Str("unspecified")
                    THEN <<difficulty>> ELSE <<>>,
         psychological_status |-> Get(rec, "psych", Str("unassessed"))]

---------------------------------------------------------------------------
(* main: one render pass.                                                  *)
(* An uploaded file is [k |-> "file", readable |-> b, data |-> d]; d, what *)
(* pd.read_excel returns for it, is [nrows |-> n, cols |-> c], c a cohort  *)
(* as above.  Further field names: name 姓名, id 学号, class 班级_基本信息, *)
(* scholarship 人民奖学金, grant 助学金.  The strings that are searched    *)
(* are sequences of characters.                                            *)

NoFile == [k |-> "None"]

\* load_data handing back an empty DataFrame, not None, when read_excel
\* raised
load_data_empty_frame(file) ==
    IF file.readable
    THEN [df |-> <<file.data>>, messages |-> <<>>]
    ELSE [df |-> <<[nrows |-> 0, cols |-> <<>>]>>, messages |-> <<"read_error">>]

\* load_data keeping the first frame it read and handing it back for every
\* later file
load_data_cached(file) ==
    IF "snapshot" \in DOMAIN view
    THEN [df |-> <<view.snapshot>>, messages |-> <<>>]
    ELSE IF file.readable
    THEN [df |-> <<file.data>>, messages |-> <<>>]
    ELSE [df |-> <<>>, messages |-> <<"read_error">>]

\* load_data: the DataFrame, or None after st.error when read_excel raised
load_data(file) ==
    IF file.readable
    THEN [df |-> <<file.data>>, messages |-> <<>>]
    ELSE [df |-> <<>>, messages |-> <<"read_error">>]

numeric_columns ==
    {"deyu", "zhiyu", "tice", "fujia", "fujia2324", "total",
     "gpa1", "gpa2", "gpa3"}

\* df[col] = pd.to_numeric(df[col], errors='coerce') for the numeric
\* columns the frame holds
CoerceFrame(data) ==
    [data EXCEPT !.cols =
        [c \in DOMAIN data.cols |->
            IF c \in numeric_columns
            THEN [i \in 1..Len(data.cols[c]) |-> to_numeric(data.cols[c][i])]
            ELSE data.cols[c]]]

\* The same for a record, on the given keys
CoerceRecord(rec, keys) ==
    [c \in DOMAIN rec |-> IF c \in keys THEN to_numeric(rec[c]) ELSE rec[c]]

\* row r of the frame
Row(data, r) == [c \in DOMAIN data.cols |-> data.cols[c][r]]

\* astype(str) of a cell of a searched column
astype_str(x) ==
    CASE x.k = "str" -> x.s
      [] x.k = "nan" -> <<"n", "a", "n">>
      [] x.k = "None" -> <<"N", "o", "n", "e">>

\* str.contains(term): term occurs in s
Contains(s, term) ==
    \E i \in 0..(Len(s) - Len(term)) : SubSeq(s, i + 1, i + Len(term)) = term

\* The mask of the search: a row matches by name, id or class; a frame
\* without the class column matches by name or id only
Matches(data, r, term) ==
    \/ Contains(astype_str(data.cols["name"][r]), term)
    \/ Contains(astype_str(data.cols["id"][r]), term)
    \/ /\ "class" \in DOMAIN data.cols
       /\ Contains(astype_str(data.cols["class"][r]), term)

\* The row numbers of filtered_df, in order
RECURSIVE Filtered(_, _, _)
Filtered(data, term, r) ==
    IF r > data.nrows THEN <<>>
    ELSE IF term = <<>> \/ Matches(data, r, term)
         THEN <<r>> \o Filtered(data, term, r + 1)
         ELSE Filtered(data, term, r + 1)

\* len(df[mask]) for the rows the mask holds of
CountRows(rows) == Cardinality(rows)

\* The index the selectbox returns: the one chosen among these options, 0
\* when the options are not the ones it was chosen among
WidgetIndex(sel, n) == IF sel.n = n /\ sel.idx < n THEN sel.idx ELSE 0

\* The charts main constructs inside a try block of their own
Charts == {"gpa", "radar", "histogram"}
NoFailure == {}

\* A try block without its handler: what the body raised leaves it
TryChart_uncaught(chart, raising, r) ==
    IF chart \in raising THEN Raised("Exception") ELSE r

\* try: <body> except Exception as e: st.error(...).  The body raises when
\* the construction of its chart is one of those that raise in this run, or
\* when the chart function itself raised; the handler catches every
\* Exception, leaves the error message of its chart (st.error) in the place
\* of what the body would have drawn, and does not re-raise
TryChart(chart, raising, r) ==
    IF chart \in raising \/ r.exc # "none"
    THEN [exc |-> "caught", error |-> chart]
    ELSE r

\* np.mean of the grade points the coerced copy holds, when it holds any
avg_gpa_of(student_data_copy) ==
    LET has(key) == key \in DOMAIN student_data_copy
                        /\ notna(student_data_copy[key])
        gpas == (IF has("gpa1") THEN <<student_data_copy["gpa1"]>> ELSE <<>>)
             \o (IF has("gpa2") THEN <<student_data_copy["gpa2"]>> ELSE <<>>)
             \o (IF has("gpa3") THEN <<student_data_copy["gpa3"]>> ELSE <<>>)
    IN  IF gpas = <<>> THEN <<>> ELSE <<mean(gpas)>>

\* The body of the try block of tab2: the coerced copy of the student, the
\* chart drawn from it, then the mean of the grade points the copy holds
GpaTab(student, data) ==
    create_gpa_chart(CoerceRecord(student, {"gpa1", "gpa2", "gpa3"}), data.cols)
        @@ [avg_gpa |->
                avg_gpa_of(CoerceRecord(student, {"gpa1", "gpa2", "gpa3"}))]

\* The five scores under the radar, a missing one shown as 0
metrics_of(vals) == [i \in 1..5 |-> IF notna(vals[i]) THEN vals[i] ELSE Num(0)]

\* The body of the try block of tab3: the coerced copy, the radar drawn
\* from it, then the five scores
RadarTab(student, data) ==
    create_radar_chart(
        CoerceRecord(student,
            {"deyu", "zhiyu", "tice", "fujia", "fujia2324", "total"}),
        data.cols)
        @@ [metrics |->
                metrics_of(actual_values_of(
                    CoerceRecord(student,
                        {"deyu", "zhiyu", "tice", "fujia", "fujia2324",
                         "total"})))]

\* tab1 .. tab3 for the selected student
Tabs(student, data, raising) ==
    [header |-> Get(student, "name", Str(<<"?">>)),
     help_status |-> display_help_status(student),
     gpa_chart |-> TryChart("gpa", raising, GpaTab(student, data)),
     radar |-> TryChart("radar", raising, RadarTab(student, data))]

\* tab4: the histogram with the student's marker, then the three counts;
\* df[c] of a column the frame lacks raises KeyError, which nothing catches
Overview(student, data, raising) ==
    LET cols == DOMAIN data.cols
        histogram ==
            IF "total" \in cols
            THEN <<TryChart("histogram", raising,
                     [exc |-> "none", x |-> data.cols["total"],
                      marker |-> IF notna(student["total"])
                                 THEN <<student["total"]>> ELSE <<>>])>>
            ELSE <<>>
        help_needed(r) ==
            /\ notna(data.cols["help"][r])
            /\ data.cols["help"][r] # Str("wu")
        awarded(r) ==
            \/ notna(data.cols["scholarship"][r])
            \/ notna(data.cols["grant"][r])
    IN  IF "help" \notin cols
        THEN [exc |-> "KeyError", histogram |-> histogram,
              total_students |-> data.nrows]
        ELSE IF "scholarship" \notin cols \/ "grant" \notin cols
        THEN [exc |-> "KeyError", histogram |-> histogram,
              total_students |-> data.nrows,
              help_needed_count |-> CountRows({r \in 1..data.nrows : help_needed(r)})]
        ELSE [exc |-> "none", histogram |-> histogram,
              total_students |-> data.nrows,
              help_needed_count |-> CountRows({r \in 1..data.nrows : help_needed(r)}),
              award_count |-> CountRows({r \in 1..data.nrows : awarded(r)})]

\* What one run of main shows: kind names the branch it ended in, exc the
\* exception that left it uncaught ("none" when it ran to its end),
\* snapshot what load_data returned and df what that frame holds at the end
\* of the run; raising are the chart constructions that raise in this run
main(file, term, sel, raising) ==
    IF file = NoFile
    THEN [kind |-> "start", exc |-> "none", messages |-> <<"please_upload">>,
          load_calls |-> 0]
    ELSE LET loaded == load_data(file)
         IN  IF loaded.df = <<>>
             THEN [kind |-> "load_failed", exc |-> "none",
                   messages |-> loaded.messages \o <<"load_failed">>,
                   load_calls |-> 1]
             ELSE LET data == CoerceFrame(loaded.df[1])
                      cols == DOMAIN data.cols
                  IN  IF term # <<>> /\ ("name" \notin cols \/ "id" \notin cols)
                      THEN [kind |-> "search", exc |-> "KeyError",
                            messages |-> <<"loaded">>, loaded_rows |-> data.nrows,
                            load_calls |-> 1,
                            snapshot |-> loaded.df[1], df |-> data]
                      ELSE LET rows == Filtered(data, term, 1)
                           IN  IF rows = <<>>
                               THEN [kind |-> "no_match", exc |-> "none",
                                     messages |-> <<"loaded", "no_match">>,
                                     loaded_rows |-> data.nrows,
                                     load_calls |-> 1,
                                     snapshot |-> loaded.df[1], df |-> data]
                               ELSE LET idx == WidgetIndex(sel, Len(rows))
                                        student == Row(data, rows[idx + 1])
                                        overview ==
                                            Overview(student, data, raising)
                                    IN  [kind |-> "report",
                                         exc |-> overview.exc,
                                         messages |-> <<"loaded">>,
                                         loaded_rows |-> data.nrows,
                                         load_calls |-> 1,
                                         snapshot |-> loaded.df[1], df |-> data,
                                         options |-> Len(rows),
                                         selected_student_idx |-> idx,
                                         selected_row |-> rows[idx + 1],
                                         previous_disabled |-> idx = 0,
                                         next_disabled |-> idx >= Len(rows) - 1,
                                         tabs |-> Tabs(student, data, raising),
                                         overview |-> overview]

---------------------------------------------------------------------------
(* The calls the specifications make.  Each initial state holds the        *)
(* arguments of one call, whose result is Pending; the results of the      *)
(* other functions are Idle, so only that call can be made.                *)

Pending == [exc |-> "pending"]
Idle == [exc |-> "idle"]

NoArgs ==
    /\ value = None
    /\ min_val = 0
    /\ max_val = 0
    /\ normalized = Idle

NoSession ==
    /\ uploaded_file = [k |-> "None"]
    /\ search_term = <<>>
    /\ selection = [n |-> 0, idx |-> 0]
    /\ view = Idle
    /\ uploads = 0
    /\ failing = {}
    /\ pressed = [button |-> "none"]

NoRecord ==
    /\ student_data = <<>>
    /\ df = NoDf
    /\ radar = Idle
    /\ gpa_chart = Idle
    /\ help_status = Idle

(* normalize_value: any value, any bounds *)

Numbers == (-2) .. MaxValue
BoundVals == (-1) .. MaxBoundVal
Values ==
    {None, NaN(TRUE), NaN(FALSE), Str("abc")}
        \cup {Num(i) : i \in Numbers} \cup {NpNum(i) : i \in Numbers}

InitNormalize ==
    /\ value \in Values
    /\ min_val \in BoundVals
    /\ max_val \in BoundVals
    /\ normalized = Pending
    /\ NoRecord
    /\ NoSession

NormalizeValue ==
    /\ normalized = Pending
    /\ normalized' = normalize_value(value, min_val, max_val)
    /\ UNCHANGED <<value, min_val, max_val, reportVars, sessionVars>>

(* create_radar_chart: the fields of one category k take every shape in    *)
(* the record and in the cohort, the fields of the other categories are    *)
(* all absent or all present.                                              *)

PartialFns(S, D) == UNION {[T -> D] : T \in SUBSET S}

RadarFields == {"deyu", "zhiyu", "tice", "fujia", "fujia2324", "total"}
FieldsOf(k) ==
    CASE k = 1 -> {"deyu"}
      [] k = 2 -> {"zhiyu"}
      [] k = 3 -> {"tice"}
      [] k = 4 -> {"fujia", "fujia2324"}
      [] k = 5 -> {"total"}

StudentCells == {NaN(TRUE), Num(13), Num(80), Str("abc")}
CohortCells == {NaN(TRUE), Str("13"), Num(80)}
Columns == [1..CohortSize -> CohortCells]

RadarRecords(k, others) ==
    LET rest == IF others THEN RadarFields \ FieldsOf(k) ELSE {}
    IN  {f @@ [c \in rest |-> Num(13)] : f \in PartialFns(FieldsOf(k), StudentCells)}

RadarCohorts(k, others) ==
    LET rest == IF others THEN RadarFields \ FieldsOf(k) ELSE {}
    IN  {f @@ [c \in rest |-> [i \in 1..CohortSize |-> Num(80)]] :
            f \in PartialFns(FieldsOf(k), Columns)}

InitRadar ==
    /\ \E k \in 1..5, others \in BOOLEAN :
          /\ student_data \in RadarRecords(k, others)
          /\ df \in {NoDf} \cup RadarCohorts(k, others)
    /\ radar = Pending
    /\ gpa_chart = Idle
    /\ help_status = Idle
    /\ NoArgs
    /\ NoSession

CreateRadarChart ==
    /\ radar = Pending
    /\ radar' = create_radar_chart(student_data, df)
    /\ UNCHANGED <<normVars, student_data, df, gpa_chart, help_status, sessionVars>>

(* create_gpa_chart: every shape of the three grade-point fields of the    *)
(* record; in the cohort the column of one period j takes every shape and  *)
(* the columns of the other periods are all absent or all present.         *)

GpaFields == {"gpa1", "gpa2", "gpa3"}
GpaCells ==
    {NaN(TRUE), Str("abc"), Str("3.5"),
     Num(0), Num(31), Num(32), Num(35), Num(40)}
GpaCohortCells == {Str("abc"), Num(20), Num(35)}

GpaCohorts(j, others) ==
    LET rest == IF others THEN GpaFields \ {GpaKey(j)} ELSE {}
    IN  {f @@ [c \in rest |-> [i \in 1..CohortSize |-> Num(30)]] :
            f \in PartialFns({GpaKey(j)}, [1..CohortSize -> GpaCohortCells])}

InitGpa ==
    /\ student_data \in PartialFns(GpaFields, GpaCells)
    /\ \E j \in 1..3, others \in BOOLEAN :
          df \in {NoDf} \cup GpaCohorts(j, others)
    /\ gpa_chart = Pending
    /\ radar = Idle
    /\ help_status = Idle
    /\ NoArgs
    /\ NoSession

CreateGpaChart ==
    /\ gpa_chart = Pending
    /\ gpa_chart' = create_gpa_chart(student_data, df)
    /\ UNCHANGED <<normVars, student_data, df, radar, help_status, sessionVars>>

(* display_help_status: every shape of the three fields it reads *)

HelpCells ==
    {None, NaN(TRUE), NaN(FALSE), Str("wu"), Str(""), Str("you"), Str("fees")}
DifficultyCells == {NaN(TRUE), Str(""), Str("unspecified"), Str("fees")}
PsychCells == {NaN(TRUE), Str("normal"), Str("level2")}

HelpRecords ==
    {h @@ d @@ p : h \in PartialFns({"help"}, HelpCells),
                   d \in PartialFns({"difficulty"}, DifficultyCells),
                   p \in PartialFns({"psych"}, PsychCells)}

InitHelp ==
    /\ student_data \in HelpRecords
    /\ df = NoDf
    /\ help_status = Pending
    /\ radar = Idle
    /\ gpa_chart = Idle
    /\ NoArgs
    /\ NoSession

DisplayHelpStatus ==
    /\ help_status = Pending
    /\ help_status' = display_help_status(student_data)
    /\ UNCHANGED <<normVars, student_data, df, radar, gpa_chart, sessionVars>>

Init == InitNormalize \/ InitRadar \/ InitGpa \/ InitHelp

Next ==
    \/ NormalizeValue
    \/ CreateRadarChart
    \/ CreateGpaChart
    \/ DisplayHelpStatus

Spec == Init /\ [][Next]_vars

---------------------------------------------------------------------------
(* The session: every interaction reruns main.  A widget that a run did    *)
(* not reach loses what it held.                                           *)

\* The cells of row r of a sheet, column by column
NameOf == << <<"l", "i">>, <<"w", "u">>, <<"l", "u">>, <<"m", "a">> >>
IdOf == << <<"a", "1">>, <<"a", "2">>, <<"a", "3">>, <<"a", "4">> >>
SheetCell(c, r) ==
    CASE c = "name" -> Str(NameOf[r])
      [] c = "id" -> Str(IdOf[r])
      [] c = "class" -> Str(<<"c", "1">>)
      [] c = "scholarship" -> IF r = 1 THEN Str("first") ELSE NaN(TRUE)
      [] c = "grant" -> IF r = 2 THEN Str("grant") ELSE NaN(TRUE)
      [] c = "total" -> IF r = 2 THEN Str("13") ELSE Num(80)
      [] c = "gpa1" -> IF r = 1 THEN Str("3.5") ELSE Num(32)
      [] c = "gpa2" -> IF r = 1 THEN Str("abc") ELSE Num(35)

\* The help column: only the first student needs help; or the first
\* student's cell is an empty one of a column read as floats and nobody
\* needs help; or the first student's cell is the empty string and the
\* others say yes; or the column is empty throughout and is read as floats
HelpColumn(j) ==
    CASE j = 1 -> [r \in 1..SheetRows |-> IF r = 1 THEN Str("you") ELSE Str("wu")]
      [] j = 2 -> [r \in 1..SheetRows |-> IF r = 1 THEN NaN(FALSE) ELSE Str("wu")]
      [] j = 3 -> [r \in 1..SheetRows |-> IF r = 1 THEN Str("") ELSE Str("you")]
      [] j = 4 -> [r \in 1..SheetRows |-> NaN(FALSE)]

SheetColumns ==
    {"name", "id", "class", "help", "scholarship", "grant", "total"}

Sheet(present, j) ==
    [nrows |-> SheetRows,
     cols |-> [c \in present |->
                IF c = "help" THEN HelpColumn(j)
                ELSE [r \in 1..SheetRows |-> SheetCell(c, r)]]]

\* The sheets that lack up to MaxMissing of the columns, and every help
\* column with all of them
Sheets ==
    {Sheet(SheetColumns \ missing, 1) :
        missing \in {s \in SUBSET SheetColumns : Cardinality(s) <= MaxMissing}}
        \cup {Sheet(SheetColumns, j) : j \in 1..4}

Files ==
    {[k |-> "file", readable |-> FALSE, data |-> <<>>]}
        \cup {[k |-> "file", readable |-> TRUE, data |-> d] : d \in Sheets}

SearchTerms == {<<>>, <<"l">>, <<"a">>, <<"z">>}

NoSelection == [n |-> 0, idx |-> 0]
NoButton == [button |-> "none"]

\* What the widgets hold after a run that showed v
KeptTerm(v, term) ==
    IF v.kind \in {"search", "no_match", "report"} THEN term ELSE <<>>
KeptSelection(v) ==
    IF v.kind = "report"
    THEN [n |-> v.options, idx |-> v.selected_student_idx]
    ELSE NoSelection

\* The rerun of main that an interaction sets off
Rerun(file, term, sel) ==
    LET v == main(file, term, sel, NoFailure)
    IN  /\ view' = v
        /\ uploaded_file' = file
        /\ search_term' = KeptTerm(v, term)
        /\ selection' = KeptSelection(v)
        /\ failing' = NoFailure

InitSession ==
    /\ uploaded_file = NoFile
    /\ search_term = <<>>
    /\ selection = NoSelection
    /\ view = main(NoFile, <<>>, NoSelection, NoFailure)
    /\ uploads = 0
    /\ failing = NoFailure
    /\ pressed = NoButton
    /\ NoArgs
    /\ NoRecord

Upload ==
    /\ view # Idle
    /\ uploads < MaxUploads
    /\ \E f \in Files : Rerun(f, search_term, selection)
    /\ uploads' = uploads + 1
    /\ pressed' = NoButton
    /\ UNCHANGED <<normVars, reportVars>>

RemoveFile ==
    /\ view # Idle
    /\ uploaded_file # NoFile
    /\ Rerun(NoFile, search_term, selection)
    /\ pressed' = NoButton
    /\ UNCHANGED <<uploads, normVars, reportVars>>

Search ==
    /\ view # Idle
    /\ view.kind \in {"search", "no_match", "report"}
    /\ \E t \in SearchTerms : Rerun(uploaded_file, t, selection)
    /\ pressed' = NoButton
    /\ UNCHANGED <<uploads, normVars, reportVars>>

Select ==
    /\ view # Idle
    /\ view.kind = "report"
    /\ \E i \in 0..(view.options - 1) :
          Rerun(uploaded_file, search_term, [n |-> view.options, idx |-> i])
    /\ pressed' = NoButton
    /\ UNCHANGED <<uploads, normVars, reportVars>>

\* The buttons change the local selected_student_idx and call st.rerun():
\* the rerun starts main afresh with what the widgets hold
ClickPrevious ==
    /\ view # Idle
    /\ view.kind = "report"
    /\ ~view.previous_disabled
    /\ Rerun(uploaded_file, search_term, selection)
    /\ pressed' = [button |-> "previous", idx |-> view.selected_student_idx]
    /\ UNCHANGED <<uploads, normVars, reportVars>>

ClickNext ==
    /\ view # Idle
    /\ view.kind = "report"
    /\ ~view.next_disabled
    /\ Rerun(uploaded_file, search_term, selection)
    /\ pressed' = [button |-> "next", idx |-> view.selected_student_idx]
    /\ UNCHANGED <<uploads, normVars, reportVars>>

NextSession ==
    \/ Upload
    \/ RemoveFile
    \/ Search
    \/ Select
    \/ ClickPrevious
    \/ ClickNext

SpecSession == InitSession /\ [][NextSession]_vars

---------------------------------------------------------------------------
(* One run of main, with chart constructions that raise.  In a session the *)
(* charts are given a coerced frame and never raise on their own; here any *)
(* of the three constructions may raise, as a failure inside the plotting  *)
(* library would make it.                                                  *)

\* The sheets of a session, and sheets that hold grade points as well
RenderFiles ==
    Files \cup
        {[k |-> "file", readable |-> TRUE,
          data |-> Sheet(SheetColumns \cup {"gpa1", "gpa2"}, j)] : j \in 1..3}

RenderSelections ==
    {NoSelection} \cup {[n |-> SheetRows, idx |-> i] : i \in 0..(SheetRows - 1)}

InitRender ==
    /\ uploaded_file \in RenderFiles
    /\ search_term \in SearchTerms
    /\ selection \in RenderSelections
    /\ failing \in SUBSET Charts
    /\ view = Pending
    /\ uploads = 0
    /\ pressed = NoButton
    /\ NoArgs
    /\ NoRecord

Render ==
    /\ view = Pending
    /\ view' = main(uploaded_file, search_term, selection, failing)
    /\ UNCHANGED <<uploaded_file, search_term, selection, uploads, failing,
                   pressed, normVars, reportVars>>

SpecRender == InitRender /\ [][Render]_vars

---------------------------------------------------------------------------
(* Properties *)

Zero == Fin(0, 1)
Hundred == Fin(100, 1)

NormalizeCalled == normalized \notin {Pending, Idle}
RadarDrawn == radar \notin {Pending, Idle} /\ radar.exc = "none"
GpaDrawn == gpa_chart \notin {Pending, Idle}
HelpShown == help_status \notin {Pending, Idle}

\* C1: for a numeric value and bounds min < max, normalize_value returns 0
\* when value <= min, 100 when value >= max, and is monotonic non-decreasing
\* in the value.
C1_ClampedAndMonotone ==
    (NormalizeCalled /\ value.k = "num" /\ min_val < max_val) =>
        /\ normalized.exc = "none"
        /\ value.n <= min_val * value.d => FEq(normalized.val, Zero)
        /\ value.n >= max_val * value.d => FEq(normalized.val, Hundred)
        /\ \A i \in Numbers, b \in BOOLEAN :
              LET other == normalize_value(
                      [k |-> "num", n |-> i, d |-> 1, np |-> b], min_val, max_val)
              IN  /\ value.n <= i * value.d => Le(normalized.val, other.val)
                  /\ i * value.d <= value.n => Le(other.val, normalized.val)

\* A value strictly between the bounds came out strictly between 0 and 100
C1_Witness ==
    /\ NormalizeCalled /\ value.k = "num" /\ min_val < max_val
    /\ min_val * value.d < value.n /\ value.n < max_val * value.d
    /\ normalized.exc = "none"
    /\ Lt(Zero, normalized.val) /\ Lt(normalized.val, Hundred)

\* C2: normalize_value never raises: for every value (numeric, missing or
\* otherwise) and every bounds, min = max included, it returns a number in
\* 0 .. 100.
C2_NeverRaises ==
    NormalizeCalled =>
        /\ normalized.exc = "none"
        /\ normalized.val.t = "fin"
        /\ Le(Zero, normalized.val) /\ Le(normalized.val, Hundred)

\* C3: normalize_value returns 0 on a missing value whatever the bounds, so
\* on the radar a missing individual metric and a cohort mean that is
\* missing (no numeric cell in the column) are both drawn at 0.
C3_MissingIsZero ==
    /\ (NormalizeCalled /\ isna(value)) => normalized = Returned(Zero)
    /\ RadarDrawn =>
          /\ \A i \in 1..5 :
                isna(radar.actual_values[i]) =>
                    FEq(radar.normalized_values[i], Zero)
          /\ radar.has_class =>
                \A i \in 1..5 :
                    isna(radar.class_avg[i]) =>
                        FEq(radar.normalized_class_avg[i], Zero)

\* A radar with a missing individual metric and a missing cohort mean
C3_Witness ==
    /\ RadarDrawn /\ radar.has_class
    /\ \E i \in 1..5 : isna(radar.actual_values[i])
    /\ \E i \in 1..5 : isna(radar.class_avg[i])

\* The grade-point cells of the record that are present and convert
ConvertedGpas(rec) ==
    LET ok(sem) == /\ GpaKey(sem) \in DOMAIN rec
                   /\ notna(rec[GpaKey(sem)])
                   /\ Converted(rec[GpaKey(sem)]).exc = "none"
        val(sem) == Converted(rec[GpaKey(sem)]).val
        s1 == IF ok(1) THEN <<val(1)>> ELSE <<>>
        s2 == IF ok(2) THEN <<val(2)>> ELSE <<>>
        s3 == IF ok(3) THEN <<val(3)>> ELSE <<>>
    IN  s1 \o s2 \o s3

\* C4: with fewer than 2 grade-point values that are present and convert
\* to a number, the individual series is the default series 3.2, 3.5, 3.1
\* over the three periods; with 2 or more it is the observed series.
C4_FallbackBelowTwoValues ==
    GpaDrawn =>
        LET seen == ConvertedGpas(student_data)
        IN  /\ Len(seen) < 2 =>
                  /\ gpa_chart.semesters = DefaultSemesters
                  /\ gpa_chart.gpas = DefaultGpas
            /\ Len(seen) >= 2 => gpa_chart.gpas = seen

\* Residuals of the trend trace against the observed series
Residual(i) == RSub(gpa_chart.trend.all_trend[i], gpa_chart.gpas[i])

\* C5: for n >= 2 values the projected point is the least-squares line over
\* the positions 0 .. n-1 evaluated at n and clamped to 0 .. 4: the line is
\* the one whose residuals sum to zero plainly and weighted by position,
\* the projection continues it by one step, lies in 0 .. 4, and for
\* 3.2, 3.5, 3.1 it is 9.5/3.
C5_ProjectionIsClampedFit ==
    (GpaDrawn /\ gpa_chart.has_trend) =>
        LET y == gpa_chart.gpas
            n == Len(y)
            t == gpa_chart.trend.all_trend
            step == RSub(t[n], t[n - 1])
            line_at_n == RAdd(t[n], step)
            next_gpa == gpa_chart.trend.next_gpa
        IN  /\ n >= 2
            /\ FEq(RSum([i \in 1..n |-> Residual(i)]), Zero)
            /\ FEq(RSum([i \in 1..n |-> RMulInt(i - 1, Residual(i))]), Zero)
            /\ \A i \in 2..(n - 1) : FEq(RSub(t[i], t[i - 1]), step)
            /\ Le(Zero, next_gpa) /\ Le(next_gpa, Fin(40, 1))
            /\ Lt(line_at_n, Zero) => FEq(next_gpa, Zero)
            /\ Lt(Fin(40, 1), line_at_n) => FEq(next_gpa, Fin(40, 1))
            /\ (Le(Zero, line_at_n) /\ Le(line_at_n, Fin(40, 1))) =>
                  FEq(next_gpa, line_at_n)
            /\ y = DefaultGpas => FEq(next_gpa, Fin(95, 3))

\* The record holds 3.2, 3.5, 3.1 and the projection was drawn from it
C5_Witness ==
    /\ GpaDrawn /\ gpa_chart.has_trend /\ ~gpa_chart.fallback
    /\ gpa_chart.gpas = DefaultGpas
    /\ FEq(gpa_chart.trend.next_gpa, Fin(95, 3))

\* Two series of floats are equal point by point
SameSeries(a, b) ==
    /\ Len(a) = Len(b)
    /\ \A i \in 1..Len(a) : FEq(a[i], b[i])

\* C6 as stated: the trend is the n observed values followed by the one
\* projected point.
C6_ObservedPlusProjection ==
    (GpaDrawn /\ gpa_chart.has_trend) =>
        SameSeries(gpa_chart.trend.all_trend,
                   gpa_chart.gpas \o <<gpa_chart.trend.next_gpa>>)

\* C6, amended: the trend trace holds n + 1 points, the n values of the
\* fitted line at the positions 0 .. n-1 followed by the one projected
\* point; the observed values stay as they were read in the individual
\* trace; and drawing the chart changes neither the record nor the cohort.
C6_FittedPlusProjection ==
    /\ [](  (GpaDrawn /\ gpa_chart.has_trend) =>
              LET y == gpa_chart.gpas
                  n == Len(y)
                  t == gpa_chart.trend.all_trend
              IN  /\ Len(t) = n + 1
                  /\ \A i \in 1..n : FEq(t[i], polyval(polyfit(y), i - 1))
                  /\ t[n + 1] = gpa_chart.trend.next_gpa
                  /\ gpa_chart.trend.next_semester = [pred |-> n + 1]
                  /\ y = IF gpa_chart.fallback THEN DefaultGpas
                         ELSE Collect(student_data, <<1, 2, 3>>).gpas )
    /\ [][student_data' = student_data /\ df' = df]_vars

\* Three observed values off their fitted line, with the trend drawn
C6_Witness ==
    /\ GpaDrawn /\ gpa_chart.has_trend /\ ~gpa_chart.fallback
    /\ Len(gpa_chart.gpas) = 3
    /\ Len(gpa_chart.trend.all_trend) = 4
    /\ ~FEq(gpa_chart.trend.all_trend[1], gpa_chart.gpas[1])

\* The column a radar category is averaged over, <<>> when there is none
CategoryField == <<"deyu", "zhiyu", "tice", "fujia", "total">>
RadarColumn(cohort, i) ==
    CASE i = 4 /\ "fujia" \in DOMAIN cohort -> <<cohort["fujia"]>>
      [] i = 4 /\ "fujia2324" \in DOMAIN cohort -> <<cohort["fujia2324"]>>
      [] i # 4 /\ CategoryField[i] \in DOMAIN cohort ->
            <<cohort[CategoryField[i]]>>
      [] OTHER -> <<>>

NoNumericCell(col) == \A i \in 1..Len(col) : isna(to_numeric(col[i]))

IsZero(x) == x.k = "num" /\ x.n = 0

\* C7: the cohort mean of a column that is present but holds no numeric
\* value is 0, on the radar and in the per-period grade-point means.
C7_EmptyMeanIsZero ==
    /\ (RadarDrawn /\ radar.has_class) =>
          \A i \in 1..5 :
              LET c == RadarColumn(df, i)
              IN  (c # <<>> /\ NoNumericCell(c[1])) => IsZero(radar.class_avg[i])
    /\ (GpaDrawn /\ gpa_chart.has_class) =>
          \A i \in 1..Len(gpa_chart.semesters) :
              LET key == GpaKey(gpa_chart.semesters[i])
              IN  (key \in DOMAIN df /\ NoNumericCell(df[key])) =>
                      IsZero(gpa_chart.class_avg_gpas[i])

\* C8: a record is classified as not needing help when the help field is
\* the literal 无, absent or null, and as needing help for every other
\* non-empty, non-null value.
C8_HelpClassification ==
    HelpShown =>
        LET absent == "help" \notin DOMAIN student_data
            v == Get(student_data, "help", None)
        IN  /\ (absent \/ isna(v) \/ v = Str("wu")) => ~help_status.help_needed
            /\ (~absent /\ notna(v) /\ v # Str("wu") /\ v # Str("")) =>
                  help_status.help_needed

Unreadable(file) == file.k = "file" /\ ~file.readable
Readable(file) == file.k = "file" /\ file.readable

\* C9: a column the sheet lacks is defaulted and never raises: whatever
\* subset of the columns is missing, with or without a search term, a run
\* of main ends without an uncaught exception.
C9_NoUncaughtException == view # Idle => view.exc = "none"

\* C10: when the file cannot be read, load_data returns no frame and shows
\* its error; that run offers no selection and draws no report or chart,
\* and reads the file once; the next upload of a readable file is shown as
\* a fresh session shows it.
C10_LoadFailureHalts ==
    /\ [](  Unreadable(uploaded_file) =>
              /\ view.kind = "load_failed"
              /\ view.exc = "none"
              /\ view.messages = <<"read_error", "load_failed">>
              /\ view.load_calls = 1
              /\ DOMAIN view = {"kind", "exc", "messages", "load_calls"}
              /\ selection = NoSelection )
    /\ [][ (Unreadable(uploaded_file) /\ Readable(uploaded_file')) =>
              /\ view'.kind \in {"report", "no_match"}
              /\ view' = main(uploaded_file', <<>>, NoSelection, NoFailure) ]_vars

\* An unreadable file was uploaded and another upload can follow
C10_Witness ==
    /\ Unreadable(uploaded_file)
    /\ view.kind = "load_failed"
    /\ uploads < MaxUploads

Rendered == view \notin {Pending, Idle}
Caught(chart) == [exc |-> "caught", error |-> chart]

\* C11: a chart construction that raises (grade-point trend, radar or
\* histogram) is caught for that chart and leaves its error message in the
\* chart's place; the run ends as the run without the failure ends, and
\* every other tab and chart of the run is what that run shows.
C11_ChartFailureIsContained ==
    (Rendered /\ view.kind = "report") =>
        LET clean == main(uploaded_file, search_term, selection, NoFailure)
            slot(chart, shown, expected) ==
                IF chart \in failing THEN shown = Caught(chart)
                ELSE shown = expected
        IN  /\ view.exc = clean.exc
            /\ view.selected_row = clean.selected_row
            /\ view.tabs.header = clean.tabs.header
            /\ view.tabs.help_status = clean.tabs.help_status
            /\ slot("gpa", view.tabs.gpa_chart, clean.tabs.gpa_chart)
            /\ slot("radar", view.tabs.radar, clean.tabs.radar)
            /\ DOMAIN view.overview = DOMAIN clean.overview
            /\ \A f \in DOMAIN clean.overview \ {"histogram"} :
                  view.overview[f] = clean.overview[f]
            /\ Len(view.overview.histogram) = Len(clean.overview.histogram)
            /\ clean.overview.histogram # <<>> =>
                  slot("histogram", view.overview.histogram[1],
                       clean.overview.histogram[1])

\* The radar raised; the trend of the student's own grade points, the
\* histogram and the three counts were drawn all the same
C11_Witness ==
    /\ Rendered /\ view.kind = "report"
    /\ failing = {"radar"}
    /\ view.tabs.radar = Caught("radar")
    /\ view.tabs.gpa_chart.exc = "none"
    /\ ~view.tabs.gpa_chart.fallback
    /\ view.overview.exc = "none"
    /\ view.overview.histogram # <<>>
    /\ view.overview.histogram[1].exc = "none"

Loaded == Rendered /\ view.kind \in {"search", "no_match", "report"}

\* C12: the frame load_data returned is never changed in place: after any
\* run of main it holds the values load_data returned.
C12_SnapshotNeverMutated ==
    Loaded => view.df = load_data(uploaded_file).df[1]

\* C13: after any sequence of uploads, searches, selections and clicks,
\* what is shown is what a run of main shows that is given nothing but the
\* file now held by the uploader, the search term and the selection; the
\* frame it was drawn from is the one read from that file, whatever was
\* uploaded or shown before.
C13_ViewOfCurrentInputsOnly ==
    /\ view = main(uploaded_file, search_term, selection, NoFailure)
    /\ Loaded => view.snapshot = uploaded_file.data
    /\ uploaded_file = NoFile => view.kind = "start"
    /\ Unreadable(uploaded_file) => view.kind = "load_failed"

\* A second upload, of a sheet other than the first, is shown with the
\* second student selected
C13_Witness ==
    /\ uploads = 2
    /\ Loaded /\ view.kind = "report"
    /\ view.selected_student_idx = 1
    /\ "class" \notin DOMAIN view.snapshot.cols

\* C14: the buttons browse the filtered list: a run set off by a press of
\* the next button shows the student after the one shown when it was
\* pressed, a press of the previous button the student before; the previous
\* button is disabled exactly on the first student, the next button exactly
\* on the last.
C14_ButtonsBrowse ==
    /\ (Rendered /\ view.kind = "report") =>
          /\ view.previous_disabled <=> view.selected_student_idx = 0
          /\ view.next_disabled <=>
                view.selected_student_idx = view.options - 1
    /\ pressed.button = "next" =>
          /\ view.kind = "report"
          /\ view.selected_student_idx = pressed.idx + 1
    /\ pressed.button = "previous" =>
          /\ view.kind = "report"
          /\ view.selected_student_idx = pressed.idx - 1

\* C15: the count of students needing help in the overview is the number
\* of rows of the frame that display_help_status classifies as needing
\* help, whatever the help cells hold.
C15_CountMatchesClassifier ==
    (Rendered /\ view.kind = "report"
        /\ "help_needed_count" \in DOMAIN view.overview) =>
        view.overview.help_needed_count =
            Cardinality({r \in 1..view.df.nrows :
                display_help_status(Row(view.df, r)).help_needed})

\* C16: where create_gpa_chart draws the individual trace, the periods and
\* the values are as many and belong together one to one, whatever the
\* grade-point fields of the record hold; so the cohort means are one per
\* plotted value.
C16_PeriodsMatchValues ==
    GpaDrawn =>
        /\ Len(gpa_chart.semesters) = Len(gpa_chart.gpas)
        /\ ~gpa_chart.fallback =>
              \A i \in 1..Len(gpa_chart.semesters) :
                  Converted(student_data[GpaKey(gpa_chart.semesters[i])])
                      = Returned(gpa_chart.gpas[i])
        /\ gpa_chart.has_class =>
              Len(gpa_chart.class_avg_gpas) = Len(gpa_chart.gpas)

===========================================================================
